---- MODULE Spec2Model ----
(***************************************************************************)
(* A model of objinspect: the Class wrapper (objinspect/_class.py), the    *)
(* Function wrapper (objinspect/function.py) and the Literal helpers of    *)
(* objinspect/typing.py and objinspect/util.py.                            *)
(*                                                                         *)
(* One behaviour follows one wrapped object.  `unit` says which: a Class,  *)
(* a Function or a type expression handed to the typing helpers.  Every    *)
(* operation records what it returned or raised in `last`.                 *)
(***************************************************************************)
EXTENDS Integers, Sequences, FiniteSets, TLC

VARIABLES
    unit,              \* "Class", "Function" or "typing"
    cls,               \* Class.cls: the class or instance that was wrapped
    extractor_kwargs,  \* Class.extractor_kwargs
    name,              \* Class.name
    is_initialized,    \* Class.is_initialized
    instance,          \* Class.instance
    _methods,          \* Class._methods (insertion-ordered dict, as a sequence)
    has_init,          \* Class.has_init
    docstring,         \* Class.docstring
    description,       \* Class.description
    func,              \* Function.func: the wrapped callable
    skip_self,         \* Function.skip_self
    _parameters,       \* Function._parameters (OrderedDict, as a sequence)
    t,                 \* the type expression given to the typing helpers
    last               \* what the last operation returned or raised

vars == <<unit, cls, extractor_kwargs, name, is_initialized, instance, _methods,
          has_init, docstring, description, func, skip_self, _parameters, t, last>>

classVars == <<cls, extractor_kwargs, name, is_initialized, instance, _methods, has_init,
               docstring, description>>
functionVars == <<func, skip_self, _parameters>>

(***************************************************************************)
(* Bounds of the model.                                                    *)
(***************************************************************************)
\* integer keys tried by the lookups range over -MaxIndex..MaxIndex
MaxIndex == 2
\* a wrapped callable declares at most MaxParams parameters
MaxParams == 2
\* a parsed docstring documents at most MaxDocs parameters
MaxDocs == 2
\* a Literal type declares at most MaxLits values
MaxLits == 2

(***************************************************************************)
(* Python values shared by the three units.                                *)
(***************************************************************************)
None == "None"

\* the exceptions the code raises, by type and (for ValueError) message
KeyError == "KeyError"
IndexError == "IndexError"
TypeError == "TypeError"
AlreadyInitialized == "ValueError: is already initialized"
NotInitialized == "ValueError: is not initialized"
NotALiteral == "ValueError: is not a literal"
HasNoValues == "ValueError: has no values"

LookupErrors == {KeyError, IndexError, TypeError}

\* a lookup key: a str, an int, or a value of another type (a float)
StrKey(s) == [type |-> "str", s |-> s, i |-> 0]
IntKey(i) == [type |-> "int", s |-> "", i |-> i]
FloatKey == [type |-> "float", s |-> "3.3", i |-> 0]

Raised(e) == [outcome |-> e]
Returned(v) == [outcome |-> "ok", value |-> v]

\* list[i] of Python: a negative index counts from the end
ListItem(list, i) ==
    LET n == Len(list) IN
    IF i >= n \/ i < -n THEN Raised(IndexError)
    ELSE Returned(list[IF i < 0 THEN n + i + 1 ELSE i + 1])

\* dict[key] of Python on a name-keyed ordered mapping
DictItem(mapping, key) ==
    IF \E j \in 1..Len(mapping) : mapping[j].name = key
    THEN Returned(mapping[CHOOSE j \in 1..Len(mapping) : mapping[j].name = key])
    ELSE Raised(KeyError)

\* the names of the entries of a sequence, in order
Names(seq) == [j \in 1..Len(seq) |-> seq[j].name]

(***************************************************************************)
(* objinspect/_class.py                                                    *)
(***************************************************************************)
\* The members a wrapped class can define, in the name order in which
\* inspect.getmembers lists them.
Pool ==
    << [name |-> "__init__", kind |-> "function", inherited |-> FALSE, marker |-> "dunder"],
       [name |-> "_hid", kind |-> "function", inherited |-> FALSE, marker |-> "_"],
       [name |-> "make", kind |-> "staticmethod", inherited |-> FALSE, marker |-> ""],
       [name |-> "run", kind |-> "function", inherited |-> TRUE, marker |-> ""] >>

RECURSIVE Members(_, _)
Members(S, j) ==
    IF j > Len(Pool) THEN <<>>
    ELSE (IF j \in S THEN <<Pool[j]>> ELSE <<>>) \o Members(S, j + 1)

\* inspect.getdoc(self.cls): None, or the one-line docstring of the class
Docstrings == {None, "A class."}

\* The objects handed to Class(...): a class, or an instance of it.  An
\* instance normally has no __name__ attribute, but may define one.
Targets ==
    { [is_class |-> c, has_name |-> h, members |-> Members(S, 1), doc |-> d] :
        c \in BOOLEAN, h \in BOOLEAN, S \in SUBSET (1..Len(Pool)), d \in Docstrings }

WrappableTargets == { x \in Targets : x.is_class => x.has_name }

\* the keyword arguments of Class.__init__ (no member of Pool is private, so
\* private keeps its default)
ExtractorKwargs ==
    [init : BOOLEAN, public : BOOLEAN, inherited : BOOLEAN,
     static_methods : BOOLEAN, protected : BOOLEAN, private : {FALSE}]

\* inspect.getmembers(self.cls, inspect.isfunction): read through a class, a
\* def and a staticmethod are functions; read through an instance, a def is
\* a bound method and only a staticmethod is still a function.
getmembers_isfunction(obj) ==
    SelectSeq(obj.members,
              LAMBDA m : IF obj.is_class
                         THEN m.kind \in {"function", "staticmethod"}
                         ELSE m.kind = "staticmethod")

\* Method(func, cls): the attributes of a method that the filter and
\* call_method read.  A name with a leading "__" and no trailing one is
\* private, another name with a leading "_" is protected.
Method(m) ==
    [name |-> m.name,
     is_static |-> m.kind = "staticmethod",
     is_inherited |-> m.inherited,
     is_private |-> m.marker = "__",
     is_protected |-> m.marker = "_",
     is_public |-> m.marker \in {"", "dunder"}]

\* MethodFilter.check: a method is kept iff its visibility flag is set, and
\* inherited is set if it is inherited, init if it is the constructor,
\* static_methods if it is static.
MethodFilter_check(kwargs, m) ==
    /\ \/ m.is_public /\ kwargs.public
       \/ m.is_protected /\ kwargs.protected
       \/ m.is_private /\ kwargs.private
    /\ m.is_inherited => kwargs.inherited
    /\ m.name = "__init__" => kwargs.init
    /\ m.is_static => kwargs.static_methods

\* MethodFilter(**kwargs).extract(methods)
MethodFilter_extract(kwargs, methods) ==
    SelectSeq(methods, LAMBDA m : MethodFilter_check(kwargs, m))

\* Class._find_methods
_find_methods(obj, kwargs) ==
    LET members == getmembers_isfunction(obj)
    IN MethodFilter_extract(kwargs, [j \in 1..Len(members) |-> Method(members[j])])

\* function._has_docstr
_has_docstr(doc) == IF doc = None THEN FALSE ELSE doc # ""

\* docstring_parser.parse, of a one-line docstring: it is the short description
docstring_parser_parse(doc) ==
    [present |-> TRUE, short_description |-> doc, long_description |-> ""]

\* function._get_docstr_desc; parsed.present is FALSE for None
_get_docstr_desc(parsed) ==
    IF ~parsed.present THEN ""
    ELSE IF parsed.short_description # "" THEN parsed.short_description
    ELSE IF parsed.long_description # "" THEN parsed.long_description
    ELSE ""

\* Class.__init__: the fields of a new Class
Class__init__(obj, kwargs) ==
    LET initialized == ~obj.has_name
        found == _find_methods(obj, kwargs)
        _parsed_docstring ==
            IF _has_docstr(obj.doc) THEN docstring_parser_parse(obj.doc)
            ELSE [present |-> FALSE, short_description |-> "", long_description |-> ""]
    IN [cls |-> obj,
        docstring |-> obj.doc,
        description |-> _get_docstr_desc(_parsed_docstring),
        name |-> IF obj.has_name THEN "A" ELSE "A instance",
        is_initialized |-> initialized,
        instance |-> IF ~initialized THEN None ELSE "cls",
        extractor_kwargs |-> kwargs,
        _methods |-> found,
        has_init |-> \E j \in 1..Len(found) : found[j].name = "__init__"]

\* the arguments initialize is tried with; the constructor raises on "bad"
CtorArgs == {"x", "y", "bad"}

\* self.cls(*args, **kwargs): the object built from these arguments
Construct(args) == IF args = "bad" THEN Raised("CtorError") ELSE Returned(args)

\* the keys the method lookups are tried with
MethodKeys ==
    {StrKey(Pool[j].name) : j \in 1..Len(Pool)} \cup {StrKey("nope")}
    \cup {IntKey(i) : i \in -MaxIndex..MaxIndex} \cup {FloatKey}

\* Class.methods
methods == _methods

\* Class.get_method: the match statement
get_method(method) ==
    CASE method.type = "str" -> DictItem(_methods, method.s)
      [] method.type = "int" -> ListItem(methods, method.i)
      [] OTHER -> Raised(TypeError)

\* Class.init without its check of is_initialized
Class_init_Unguarded(args) ==
    /\ unit = "Class"
    /\ LET made == Construct(args) IN
       IF made.outcome = "ok"
       THEN /\ instance' = made.value
            /\ is_initialized' = TRUE
            /\ last' = [op |-> "init", args |-> args, outcome |-> "ok"]
       ELSE /\ last' = [op |-> "init", args |-> args, outcome |-> made.outcome]
            /\ UNCHANGED <<instance, is_initialized>>
    /\ UNCHANGED <<unit, cls, extractor_kwargs, name, _methods, has_init, docstring,
                   description, func, skip_self, _parameters, t>>

\* Class.init setting is_initialized before it calls the constructor
Class_init_FlagFirst(args) ==
    /\ unit = "Class"
    /\ IF is_initialized
       THEN /\ last' = [op |-> "init", args |-> args, outcome |-> AlreadyInitialized]
            /\ UNCHANGED <<instance, is_initialized>>
       ELSE LET made == Construct(args) IN
            /\ is_initialized' = TRUE
            /\ IF made.outcome = "ok"
               THEN /\ instance' = made.value
                    /\ last' = [op |-> "init", args |-> args, outcome |-> "ok"]
               ELSE /\ last' = [op |-> "init", args |-> args, outcome |-> made.outcome]
                    /\ UNCHANGED instance
    /\ UNCHANGED <<unit, cls, extractor_kwargs, name, _methods, has_init, docstring,
                   description, func, skip_self, _parameters, t>>

\* Class.init
Class_init(args) ==
    /\ unit = "Class"
    /\ IF is_initialized
       THEN /\ last' = [op |-> "init", args |-> args, outcome |-> AlreadyInitialized]
            /\ UNCHANGED <<instance, is_initialized>>
       ELSE LET made == Construct(args) IN
            IF made.outcome = "ok"
            THEN /\ instance' = made.value
                 /\ is_initialized' = TRUE
                 /\ last' = [op |-> "init", args |-> args, outcome |-> "ok"]
            ELSE /\ last' = [op |-> "init", args |-> args, outcome |-> made.outcome]
                 /\ UNCHANGED <<instance, is_initialized>>
    /\ UNCHANGED <<unit, cls, extractor_kwargs, name, _methods, has_init, docstring,
                   description, functionVars, t>>

\* Class.call_method checking is_initialized before it resolves the method
Class_call_method_CheckFirst(method) ==
    /\ unit = "Class"
    /\ last' = [op |-> "call_method", key |-> method] @@
               ( IF ~is_initialized THEN Raised(NotInitialized)
                 ELSE LET method_obj == get_method(method) IN
                      IF method_obj.outcome # "ok" THEN Raised(method_obj.outcome)
                      ELSE [outcome |-> "called", method |-> method_obj.value,
                            receiver |-> instance] )
    /\ UNCHANGED <<unit, cls, extractor_kwargs, name, is_initialized, instance,
                   _methods, has_init, docstring, description, func, skip_self,
                   _parameters, t>>

\* Class.call_method
Class_call_method(method) ==
    /\ unit = "Class"
    /\ LET method_obj == get_method(method) IN
       last' = [op |-> "call_method", key |-> method] @@
               ( IF method_obj.outcome # "ok" THEN Raised(method_obj.outcome)
                 ELSE IF ~is_initialized /\ ~method_obj.value.is_static
                      THEN Raised(NotInitialized)
                      ELSE [outcome |-> "called", method |-> method_obj.value,
                            receiver |-> instance] )
    /\ UNCHANGED <<unit, classVars, functionVars, t>>

\* Class.get_method
Class_get_method(method) ==
    /\ unit = "Class"
    /\ last' = [op |-> "get_method", key |-> method] @@ get_method(method)
    /\ UNCHANGED <<unit, classVars, functionVars, t>>

\* Class.methods returning the list the Class itself keeps
Class_methods_Shared ==
    /\ unit = "Class"
    /\ last' = [op |-> "methods", outcome |-> "ok", value |-> methods, shared |-> TRUE]
    /\ UNCHANGED <<unit, cls, extractor_kwargs, name, is_initialized, instance,
                   _methods, has_init, docstring, description, func, skip_self,
                   _parameters, t>>

\* Class.methods, read by a caller: list(...) builds a new list on every
\* read, which the Class does not share
Class_methods ==
    /\ unit = "Class"
    /\ last' = [op |-> "methods", outcome |-> "ok", value |-> methods, shared |-> FALSE]
    /\ UNCHANGED <<unit, classVars, functionVars, t>>

\* The caller pops the last entry off the list that Class.methods returned.
\* A list shared with the Class would lose the entry there too.
Caller_pops_methods ==
    /\ unit = "Class"
    /\ last.op \in {"methods", "methods.pop"}
    /\ Len(last.value) > 0
    /\ last' = [last EXCEPT !.op = "methods.pop",
                            !.value = SubSeq(last.value, 1, Len(last.value) - 1)]
    /\ IF last.shared
       THEN _methods' = SubSeq(_methods, 1, Len(_methods) - 1)
       ELSE UNCHANGED _methods
    /\ UNCHANGED <<unit, cls, extractor_kwargs, name, is_initialized, instance,
                   has_init, docstring, description, functionVars, t>>

\* Class.dict
Class_dict ==
    /\ unit = "Class"
    /\ last' = [op |-> "dict", outcome |-> "ok",
                value |-> [name |-> name, methods |-> Names(methods),
                           description |-> description,
                           initialized |-> is_initialized,
                           docstring |-> docstring]]
    /\ UNCHANGED <<unit, classVars, functionVars, t>>

(***************************************************************************)
(* objinspect/function.py                                                  *)
(***************************************************************************)
\* inspect.Parameter.empty: no annotation, no default
EMPTY == "EMPTY"

\* the parameters a callable can declare: inspect.Parameter(name, annotation, default)
ParamNames == {"self", "a", "b"}
RawParams == [name : ParamNames, annotation : {EMPTY, "int"}, default : {EMPTY, None}]

\* a signature: at most MaxParams parameters, no name declared twice
Signatures ==
    { ps \in UNION { [1..n -> RawParams] : n \in 0..MaxParams } :
        \A j, k \in 1..Len(ps) : ps[j].name = ps[k].name => j = k }

\* docstring_parser.parse(docstring).params: the documented parameters, in
\* the order of the docstring; a name can be documented twice, a
\* description can be empty
DocParams ==
    [arg_name : {"a"}, description : {"", "Argument a"}]
    \cup {[arg_name |-> "zz", description |-> "Argument zz"]}

\* self._parsed_docstr: None (present is FALSE) when there is no docstring
ParsedDocstrs ==
    {[present |-> FALSE, params |-> <<>>]}
    \cup { [present |-> TRUE, params |-> ds] :
             ds \in UNION { [1..n -> DocParams] : n \in 0..MaxDocs } }

\* the callables handed to Function(...)
Callables == [name : {"f"}, params : Signatures, doc : ParsedDocstrs]

\* type(default): the type Parameter infers from a default value
TypeOf(default) == IF default = None THEN "NoneType" ELSE "int"

\* Parameter.from_inspect_param taking a default of None for no default
from_inspect_param_NoneIsEmpty(p) ==
    [name |-> p.name,
     type |-> IF p.annotation # EMPTY THEN p.annotation ELSE EMPTY,
     default |-> IF p.default = None THEN EMPTY ELSE p.default,
     description |-> ""]

\* Parameter.from_inspect_param: a parameter without an annotation takes the
\* type of its default, if it has one; the description starts empty
from_inspect_param(p) ==
    [name |-> p.name,
     type |-> IF p.annotation # EMPTY THEN p.annotation
              ELSE IF p.default # EMPTY THEN TypeOf(p.default) ELSE EMPTY,
     default |-> p.default,
     description |-> ""]

\* Parameter.is_typed
is_typed(param) == param.type # EMPTY

\* Parameter.is_optional
is_optional(param) == param.default # EMPTY

\* Parameter.dict
Parameter_dict(param) ==
    [name |-> param.name, type |-> param.type, default |-> param.default,
     description |-> param.description]

\* params_mapping.get keeping the first documented parameter of a name
params_mapping_get_First(docparams, key) ==
    LET at == { j \in 1..Len(docparams) : docparams[j].arg_name = key } IN
    IF at = {} THEN [found |-> FALSE, description |-> ""]
    ELSE [found |-> TRUE,
          description |-> docparams[CHOOSE j \in at : \A k \in at : j <= k].description]

\* params_mapping = {p.arg_name: p for p in ...}; params_mapping.get(name, False):
\* the last documented parameter of that name, or False
params_mapping_get(docparams, key) ==
    LET at == { j \in 1..Len(docparams) : docparams[j].arg_name = key } IN
    IF at = {} THEN [found |-> FALSE, description |-> ""]
    ELSE [found |-> TRUE,
          description |-> docparams[CHOOSE j \in at : \A k \in at : k <= j].description]

\* Function._find_parameters
_find_parameters(f, skip) ==
    LET params == [j \in 1..Len(f.params) |-> from_inspect_param(f.params[j])]
        described ==
            IF f.doc.present
            THEN [j \in 1..Len(params) |->
                    LET param_name == params_mapping_get(f.doc.params, params[j].name) IN
                    IF param_name.found /\ param_name.description # ""
                    THEN [params[j] EXCEPT !.description = param_name.description]
                    ELSE params[j]]
            ELSE params
    IN SelectSeq(described, LAMBDA i : ~(i.name = "self" /\ skip))

\* Function.params
params == _parameters

\* Function.get_param looking an int up in the mapping, as it does a str
get_param_IntAsName(arg) ==
    CASE arg.type = "str" -> DictItem(_parameters, arg.s)
      [] arg.type = "int" -> Raised(KeyError)
      [] OTHER -> Raised(TypeError)

\* Function.get_param: the match statement
get_param(arg) ==
    CASE arg.type = "str" -> DictItem(_parameters, arg.s)
      [] arg.type = "int" -> ListItem(params, arg.i)
      [] OTHER -> Raised(TypeError)

\* the keys the parameter lookups are tried with
ParamKeys ==
    {StrKey(n) : n \in ParamNames \cup {"zz"}}
    \cup {IntKey(i) : i \in -MaxIndex..MaxIndex} \cup {FloatKey}

\* Function.get_param
Function_get_param(arg) ==
    /\ unit = "Function"
    /\ last' = [op |-> "get_param", key |-> arg] @@ get_param(arg)
    /\ UNCHANGED <<unit, classVars, functionVars, t>>

\* Function.params, read by a caller
Function_params ==
    /\ unit = "Function"
    /\ last' = [op |-> "params", outcome |-> "ok", value |-> params]
    /\ UNCHANGED <<unit, classVars, functionVars, t>>

\* Function.dict
Function_dict ==
    /\ unit = "Function"
    /\ last' = [op |-> "dict", outcome |-> "ok",
                value |-> [name |-> func.name,
                           parameters |-> [j \in 1..Len(_parameters) |->
                                             Parameter_dict(_parameters[j])]]]
    /\ UNCHANGED <<unit, classVars, functionVars, t>>

(***************************************************************************)
(* objinspect/typing.py and objinspect/util.py: the Literal helpers        *)
(***************************************************************************)
\* A type expression: its __origin__ (None when it has none) and its type
\* arguments.  A class, typing.Literal itself and a value that is no type
\* have neither.
Plain(n) == [origin |-> None, name |-> n, args |-> <<>>]
Alias(origin, args) == [origin |-> origin, name |-> origin, args |-> args]

\* typing_extensions.Literal, without parameters
Literal == Plain("Literal")

\* the values a Literal type can declare
LitValues == {Plain("'a'"), Plain("'b'"), Plain("'c'")}

\* Literal[...]: at most MaxLits declared values, none declared twice
LiteralTypes ==
    { Alias("Literal", vs) : vs \in
        { w \in UNION { [1..n -> LitValues] : n \in 0..MaxLits } :
            \A j, k \in 1..Len(w) : w[j] = w[k] => j = k } }

Atoms == {Plain("int"), Plain("NoneType"), Literal} \cup LiteralTypes

\* list[X], dict[K, V], Union[X, Y] over the atoms
Level1 ==
    { Alias("list", <<x>>) : x \in Atoms }
    \cup { Alias("dict", kv) :
             kv \in { p \in Atoms \X Atoms : p[1] = Plain("int") \/ p[2] = Plain("int") } }
    \cup { Alias("Union", xy) : xy \in { p \in Atoms \X Atoms : p[1] # p[2] } }

\* list[X] and Optional[X] over those (a union of a union is flattened by
\* typing, so Optional is built over the others only)
Level2 ==
    { Alias("list", <<x>>) : x \in Level1 }
    \cup { Alias("Union", <<x, Plain("NoneType")>>) :
             x \in { y \in Level1 : y.origin # "Union" } }

\* the type expressions the helpers are tried with
Types == Atoms \cup Level1 \cup Level2

\* typing.get_args
get_args(x) == x.args

\* typing.is_direct_literal
is_direct_literal(x) ==
    IF x = Literal THEN FALSE
    ELSE IF x.origin = "Literal" THEN TRUE
    ELSE FALSE

\* typing.is_or_contains_literal descending into the members of unions only
RECURSIVE is_or_contains_literal_UnionsOnly(_)
is_or_contains_literal_UnionsOnly(x) ==
    IF is_direct_literal(x) THEN TRUE
    ELSE /\ x.origin = "Union"
         /\ \E j \in 1..Len(get_args(x)) : is_or_contains_literal_UnionsOnly(get_args(x)[j])

\* typing.is_or_contains_literal
RECURSIVE is_or_contains_literal(_)
is_or_contains_literal(x) ==
    IF is_direct_literal(x) THEN TRUE
    ELSE \E j \in 1..Len(get_args(x)) : is_or_contains_literal(get_args(x)[j])

\* typing.get_literal_choices
get_literal_choices(literal_t) ==
    IF is_direct_literal(literal_t) THEN Returned(get_args(literal_t))
    ELSE LET at == { j \in 1..Len(get_args(literal_t)) :
                       is_direct_literal(get_args(literal_t)[j]) } IN
         IF at # {}
         THEN Returned(get_args(get_args(literal_t)[CHOOSE j \in at : \A k \in at : j <= k]))
         ELSE Raised(NotALiteral)

\* util.get_literal_choices
util_get_literal_choices(literal_t) == Returned(get_args(literal_t))

\* value in values
Contains(values, value) == \E j \in 1..Len(values) : values[j] = value

\* typing.literal_contains
literal_contains(literal_t, value) ==
    IF ~is_direct_literal(literal_t) THEN Raised(NotALiteral)
    ELSE LET values == get_literal_choices(literal_t).value IN
         IF Len(values) = 0 THEN Raised(HasNoValues)
         ELSE Returned(Contains(values, value))

\* a call of typing.is_or_contains_literal
typing_is_or_contains_literal ==
    /\ unit = "typing"
    /\ last' = [op |-> "is_or_contains_literal"] @@ Returned(is_or_contains_literal(t))
    /\ UNCHANGED <<unit, classVars, functionVars, t>>

\* a call of typing.get_literal_choices
typing_get_literal_choices ==
    /\ unit = "typing"
    /\ last' = [op |-> "typing.get_literal_choices"] @@ get_literal_choices(t)
    /\ UNCHANGED <<unit, classVars, functionVars, t>>

\* a call of util.get_literal_choices
util_get_literal_choices_call ==
    /\ unit = "typing"
    /\ last' = [op |-> "util.get_literal_choices"] @@ util_get_literal_choices(t)
    /\ UNCHANGED <<unit, classVars, functionVars, t>>

\* a call of typing.literal_contains
typing_literal_contains(value) ==
    /\ unit = "typing"
    /\ last' = [op |-> "literal_contains", arg |-> value] @@ literal_contains(t, value)
    /\ UNCHANGED <<unit, classVars, functionVars, t>>

\* the values of the variables of the units that are not in use
NoFunction ==
    /\ func = [name |-> "f", params |-> <<>>, doc |-> [present |-> FALSE, params |-> <<>>]]
    /\ skip_self = TRUE
    /\ _parameters = <<>>

NoClass ==
    /\ cls = [is_class |-> TRUE, has_name |-> TRUE, members |-> <<>>, doc |-> None]
    /\ extractor_kwargs = [init |-> TRUE, public |-> TRUE, inherited |-> TRUE,
                           static_methods |-> TRUE, protected |-> FALSE, private |-> FALSE]
    /\ name = "A"
    /\ is_initialized = FALSE
    /\ instance = None
    /\ _methods = <<>>
    /\ has_init = FALSE
    /\ docstring = None
    /\ description = ""

NoType == t = Plain("int")

\* a Class, just constructed
InitClass ==
    /\ unit = "Class"
    /\ \E obj \in WrappableTargets, kwargs \in ExtractorKwargs :
         LET new == Class__init__(obj, kwargs) IN
         /\ cls = new.cls
         /\ extractor_kwargs = new.extractor_kwargs
         /\ name = new.name
         /\ is_initialized = new.is_initialized
         /\ instance = new.instance
         /\ _methods = new._methods
         /\ has_init = new.has_init
         /\ docstring = new.docstring
         /\ description = new.description
    /\ NoFunction
    /\ NoType
    /\ last = [op |-> "__init__", outcome |-> "ok"]

NextClass ==
    \/ \E args \in CtorArgs : Class_init(args)
    \/ \E method \in MethodKeys : Class_call_method(method)
    \/ \E method \in MethodKeys : Class_get_method(method)
    \/ Class_methods
    \/ Caller_pops_methods
    \/ Class_dict

SpecClass == InitClass /\ [][NextClass]_vars

\* a Function, just constructed
InitFunction ==
    /\ unit = "Function"
    /\ \E f \in Callables, skip \in BOOLEAN :
         /\ func = f
         /\ skip_self = skip
         /\ _parameters = _find_parameters(f, skip)
    /\ NoClass
    /\ NoType
    /\ last = [op |-> "__init__", outcome |-> "ok"]

NextFunction ==
    \/ \E arg \in ParamKeys : Function_get_param(arg)
    \/ Function_params
    \/ Function_dict

SpecFunction == InitFunction /\ [][NextFunction]_vars

\* a type expression, about to be handed to the helpers
InitTyping ==
    /\ unit = "typing"
    /\ t \in Types
    /\ NoClass
    /\ NoFunction
    /\ last = [op |-> "__init__", outcome |-> "ok"]

NextTyping ==
    \/ typing_is_or_contains_literal
    \/ typing_get_literal_choices
    \/ util_get_literal_choices_call
    \/ \E value \in LitValues : typing_literal_contains(value)

SpecTyping == InitTyping /\ [][NextTyping]_vars

\* any of the three units
Init == InitClass \/ InitFunction \/ InitTyping

Next == NextClass \/ NextFunction \/ NextTyping

Spec == Init /\ [][Next]_vars


(***************************************************************************)
(* The claims.                                                             *)
(***************************************************************************)
\* C1: is_initialized holds exactly when an instance reference is present; it
\* never goes back to false; the instance, once present, is never replaced;
\* init on an initialized Class raises "already initialized"; so the pair
\* (is_initialized, instance) changes at most once, from (false, None) to
\* (true, an instance).
C1_InitializedOnce ==
    /\ [](is_initialized <=> instance # None)
    /\ [][ /\ is_initialized => is_initialized' /\ instance' = instance
           /\ is_initialized /\ last'.op = "init" => last'.outcome = AlreadyInitialized
           /\ <<is_initialized, instance>>' # <<is_initialized, instance>> =>
                 /\ ~is_initialized /\ instance = None
                 /\ is_initialized' /\ instance' # None ]_vars

\* a class was wrapped, initialized, and a second init has just failed
C1_Witness ==
    /\ unit = "Class" /\ cls.is_class
    /\ is_initialized /\ instance = "x"
    /\ last.op = "init" /\ last.args = "y" /\ last.outcome = AlreadyInitialized

\* the key names a stored method: a stored name, or an index Python accepts
C2_Resolves(key) ==
    \/ key.type = "str" /\ \E j \in 1..Len(_methods) : _methods[j].name = key.s
    \/ key.type = "int" /\ -Len(_methods) <= key.i /\ key.i < Len(_methods)

\* the stored method a resolving key names
C2_Resolved(key) ==
    IF key.type = "str"
    THEN _methods[CHOOSE j \in 1..Len(_methods) : _methods[j].name = key.s]
    ELSE _methods[IF key.i < 0 THEN Len(_methods) + key.i + 1 ELSE key.i + 1]

\* C2: call_method resolves the method first: an unresolvable key raises the
\* lookup error whatever the initialization state; a non-static method on a
\* Class that is not initialized raises "not initialized" and is not called;
\* in every other case the method is called, with the instance as receiver.
\* A successful init makes the Class initialized, and an init after it fails.
C2_CallMethod ==
    /\ [](unit = "Class" /\ last.op = "call_method" =>
            IF ~C2_Resolves(last.key) THEN last.outcome \in LookupErrors
            ELSE IF ~is_initialized /\ ~C2_Resolved(last.key).is_static
                 THEN last.outcome = NotInitialized
                 ELSE /\ last.outcome = "called"
                      /\ last.method = C2_Resolved(last.key)
                      /\ last.receiver = instance)
    /\ [][ last'.op = "init" =>
             /\ last'.outcome = "ok" => is_initialized'
             /\ is_initialized => last'.outcome = AlreadyInitialized ]_vars

\* a non-static method has just been called on a class that was initialized
C2_Witness ==
    /\ unit = "Class" /\ cls.is_class /\ is_initialized
    /\ last.op = "call_method" /\ last.key = StrKey("run")
    /\ last.outcome = "called" /\ ~last.method.is_static /\ last.receiver = "x"

\* what C3 says of a lookup; fromEnd tells whether an index -n..-1 is taken to
\* be within the bounds and to count from the end
C3_Lookup(fromEnd) ==
    last.op \in {"get_param", "get_method"} =>
        LET stored == IF last.op = "get_param" THEN _parameters ELSE _methods
            n == Len(stored)
            key == last.key
        IN CASE key.type = "int" ->
                  IF 0 <= key.i /\ key.i < n
                  THEN last.outcome = "ok" /\ last.value = stored[key.i + 1]
                  ELSE IF fromEnd /\ -n <= key.i /\ key.i < 0
                       THEN last.outcome = "ok" /\ last.value = stored[n + key.i + 1]
                       ELSE last.outcome = IndexError
             [] key.type = "str" ->
                  IF \E j \in 1..n : stored[j].name = key.s
                  THEN /\ last.outcome = "ok"
                       /\ last.value.name = key.s
                       /\ \E j \in 1..n : stored[j] = last.value
                  ELSE last.outcome = KeyError
             [] OTHER -> last.outcome = TypeError

\* C3 as stated: an index outside 0..n-1 raises IndexError, an unknown name
\* KeyError, a key of another type TypeError, and every index in 0..n-1 and
\* every stored name returns its entry.
C3_Original == C3_Lookup(FALSE)

\* C3, amended: an index i >= n or i < -n raises IndexError, an index in
\* -n..-1 returns the entry n + i, counted from the end; an unknown name
\* raises KeyError, a key of another type TypeError; every index in 0..n-1 and
\* every stored name returns its entry; and no lookup, failed or not, changes
\* the wrapper.
C3_LookupContract ==
    /\ []C3_Lookup(TRUE)
    /\ [][ last'.op \in {"get_param", "get_method"} =>
             UNCHANGED <<classVars, functionVars>> ]_vars

\* a Function of two parameters was asked for index -1 and returned the last
C3_Witness ==
    /\ unit = "Function" /\ Len(_parameters) = 2
    /\ last.op = "get_param" /\ last.key = IntKey(-1)
    /\ last.outcome = "ok" /\ last.value = _parameters[2]

\* the declared parameters without the receiver: the first parameter, if it
\* is named "self" and skip_self is set
C4_DeclaredWithoutReceiver ==
    IF skip_self /\ Len(func.params) > 0 /\ func.params[1].name = "self"
    THEN Tail(func.params)
    ELSE func.params

\* C4: with skip_self a parameter is dropped only if it is the first one and
\* is named "self"; every other parameter is kept, also one named "self" at a
\* later position; without skip_self none is dropped.
C4_OnlyFirstReceiver ==
    unit = "Function" => Names(_parameters) = Names(C4_DeclaredWithoutReceiver)

\* C5: a Class wrapped from an instance (one without a __name__ of its own)
\* is initialized, its instance is the wrapped object, and its method names
\* are those of a Class wrapped from the instance's class with the same
\* options.
C5_InstanceLikeItsClass ==
    unit = "Class" /\ ~cls.is_class /\ ~cls.has_name =>
        /\ is_initialized
        /\ instance = "cls"
        /\ Names(_methods) =
             Names(_find_methods([cls EXCEPT !.is_class = TRUE, !.has_name = TRUE],
                                 extractor_kwargs))

\* the declaration of the stored parameter p
C6_Declared(p) ==
    func.params[CHOOSE j \in 1..Len(func.params) : func.params[j].name = p.name]

\* what C6 says of the parameter p
C6_Holds(p) ==
    /\ is_optional(p) <=> C6_Declared(p).default # EMPTY
    /\ C6_Declared(p).annotation = EMPTY /\ C6_Declared(p).default = EMPTY =>
          ~is_typed(p) /\ ~is_optional(p)

\* C6: a parameter is optional exactly when it declares a default (None is a
\* default), whatever its type; a parameter with neither an annotation nor a
\* default is neither typed nor optional.
C6_OptionalIffDefault ==
    unit = "Function" =>
        /\ \A j \in 1..Len(_parameters) : C6_Holds(_parameters[j])
        /\ last.op = "get_param" /\ last.outcome = "ok" => C6_Holds(last.value)

\* get_param has returned an annotated parameter whose default is None, next
\* to a plain one
C6_Witness ==
    /\ unit = "Function" /\ Len(_parameters) = 2
    /\ func.params[1].annotation = EMPTY /\ func.params[1].default = EMPTY
    /\ ~is_typed(_parameters[1]) /\ ~is_optional(_parameters[1])
    /\ func.params[2].annotation = "int" /\ func.params[2].default = None
    /\ last.op = "get_param" /\ last.outcome = "ok"
    /\ last.value = _parameters[2] /\ is_optional(last.value)

\* C7: the stored parameters are the declared ones minus the skipped
\* receiver, in declaration order: dict lists them so, get_param(i) returns
\* the i-th of them, and get_param(name) the same one.
C7_DeclaredMinusReceiver ==
    unit = "Function" =>
        LET expected == Names(C4_DeclaredWithoutReceiver) IN
        /\ last.op = "dict" => Names(last.value.parameters) = expected
        /\ last.op = "get_param" /\ last.key.type = "int"
             /\ 0 <= last.key.i /\ last.key.i < Len(expected) =>
               /\ last.outcome = "ok"
               /\ last.value.name = expected[last.key.i + 1]
               /\ get_param(StrKey(last.value.name)) = Returned(last.value)

\* a parameterized Literal type
C8_IsLiteral(x) == x.origin = "Literal"

\* x is a Literal, or a union one of whose members is, through unions only
RECURSIVE C8_ThroughUnions(_)
C8_ThroughUnions(x) ==
    \/ C8_IsLiteral(x)
    \/ x.origin = "Union" /\ \E j \in 1..Len(x.args) : C8_ThroughUnions(x.args[j])

\* x and everything reached from it through type arguments
RECURSIVE C8_Parts(_)
C8_Parts(x) == {x} \cup UNION { C8_Parts(x.args[j]) : j \in 1..Len(x.args) }

\* C8 as stated: is_or_contains_literal(t) is true exactly when t is a
\* Literal or a union with a Literal member, through unions only; a Literal
\* that is only an argument of a container or mapping does not make it true.
C8_Original ==
    last.op = "is_or_contains_literal" => last.value = C8_ThroughUnions(t)

\* C8, amended: is_or_contains_literal(t) is true exactly when t is a
\* parameterized Literal or one is reached from t through type arguments, of
\* unions, containers and mappings alike.
C8_LiteralAnywhere ==
    last.op = "is_or_contains_literal" =>
        last.value = (\E x \in C8_Parts(t) : C8_IsLiteral(x))

\* a list of a Literal was found to contain a Literal
C8_Witness ==
    /\ unit = "typing" /\ last.op = "is_or_contains_literal"
    /\ t.origin = "list" /\ C8_IsLiteral(t.args[1]) /\ last.value = TRUE

\* C9: the literal choices of a Literal are its declared values, in order;
\* asking for those of a type that is no Literal (and, for a union, has no
\* Literal member) raises instead of returning; and literal_contains on a
\* Literal without values raises.
C9_LiteralChoices ==
    /\ last.op \in {"typing.get_literal_choices", "util.get_literal_choices"} =>
          IF C8_IsLiteral(t) THEN last.outcome = "ok" /\ last.value = t.args
          ELSE IF t.origin = "Union" /\ \E j \in 1..Len(t.args) : C8_IsLiteral(t.args[j])
               THEN TRUE
               ELSE last.outcome = NotALiteral
    /\ last.op = "literal_contains" /\ C8_IsLiteral(t) /\ Len(t.args) = 0 =>
          last.outcome # "ok"

\* the descriptions the docstring gives for the name n, the empty ones left out
C10_Documented(n) ==
    { func.doc.params[j].description :
        j \in { k \in 1..Len(func.doc.params) :
                  /\ func.doc.params[k].arg_name = n
                  /\ func.doc.params[k].description # "" } }

\* the stored names are declared ones
C10_NoneAdded ==
    \A j \in 1..Len(_parameters) :
        \E k \in 1..Len(func.params) : func.params[k].name = _parameters[j].name

\* C10 as stated: a parameter the docstring documents with a description has
\* that text as its description, any other an empty one; documented names
\* that are not declared add no parameter.
C10_Original ==
    unit = "Function" =>
        /\ \A j \in 1..Len(_parameters) :
              IF C10_Documented(_parameters[j].name) # {}
              THEN _parameters[j].description \in C10_Documented(_parameters[j].name)
              ELSE _parameters[j].description = ""
        /\ C10_NoneAdded

\* the last entry of the docstring for the name n
C10_LastEntry(n) ==
    LET at == { k \in 1..Len(func.doc.params) : func.doc.params[k].arg_name = n }
    IN func.doc.params[CHOOSE k \in at : \A m \in at : m <= k]

\* C10, amended: the description of a parameter is the text of the last
\* entry the docstring has for its name, if there is one and its text is not
\* empty, and is empty otherwise (so also when an earlier entry of that name
\* has a text and the last has none); documented names that are not declared
\* add no parameter.
C10_LastDescription ==
    unit = "Function" =>
        /\ \A j \in 1..Len(_parameters) :
              _parameters[j].description =
                 IF \E k \in 1..Len(func.doc.params) :
                        func.doc.params[k].arg_name = _parameters[j].name
                 THEN C10_LastEntry(_parameters[j].name).description
                 ELSE ""
        /\ C10_NoneAdded

\* "a" is documented twice, the text coming last, and has that text; the
\* other parameter is not documented and has none
C10_Witness ==
    /\ unit = "Function" /\ func.doc.present
    /\ func.doc.params = << [arg_name |-> "a", description |-> ""],
                            [arg_name |-> "a", description |-> "Argument a"] >>
    /\ Len(_parameters) = 2 /\ _parameters[1].name = "a"
    /\ _parameters[1].description = "Argument a" /\ _parameters[2].description = ""

\* the wrapped class has an __init__ method
C11_DefinesInit ==
    \E j \in 1..Len(cls.members) : cls.members[j].name = "__init__"

\* C11: has_init of a Class wrapped from a class is true exactly when the
\* class has an __init__ method, whatever the inclusion options; wrapping
\* with init unset does not make has_init false.
C11_HasInit ==
    unit = "Class" /\ cls.is_class => (has_init <=> C11_DefinesInit)

\* C12: once a Class is constructed no operation changes its method mapping,
\* name, has_init, description or docstring; init changes only
\* is_initialized and instance, and no other operation changes these either;
\* a caller changing the list it got from methods does not change the Class;
\* and no operation changes the parameter mapping of a Function.
C12_ReadOnly ==
    [][ /\ UNCHANGED <<cls, _methods, name, has_init, description, docstring,
                       extractor_kwargs>>
        /\ last'.op # "init" => UNCHANGED <<is_initialized, instance>>
        /\ UNCHANGED <<func, skip_self, _parameters>> ]_vars

\* a caller has emptied the list that methods returned, and the Class still
\* has its two methods
C12_Witness ==
    /\ unit = "Class" /\ Len(_methods) = 2
    /\ last.op = "methods.pop" /\ last.value = <<>>

\* C13: when the constructor raises during init, its error is what init
\* raises, and the Class is left as it was, not initialized and without an
\* instance; as long as the Class is not initialized an init with valid
\* arguments succeeds and a call of a non-static method raises
\* "not initialized".
C13_FailedInit ==
    /\ [](unit = "Class" /\ last.op = "init" /\ last.args = "bad" =>
            last.outcome \in {"CtorError", AlreadyInitialized})
    /\ [][ /\ last'.op = "init" /\ last'.outcome = "CtorError" =>
                /\ ~is_initialized' /\ instance' = None
                /\ UNCHANGED classVars
           /\ unit = "Class" /\ ~is_initialized =>
                /\ last'.op = "init" /\ last'.args # "bad" =>
                      /\ last'.outcome = "ok"
                      /\ is_initialized' /\ instance' = last'.args
                /\ last'.op = "call_method" /\ C2_Resolves(last'.key)
                     /\ ~C2_Resolved(last'.key).is_static =>
                      last'.outcome = NotInitialized ]_vars

\* the constructor of a wrapped class has just raised
C13_Witness ==
    /\ unit = "Class" /\ cls.is_class
    /\ last.op = "init" /\ last.outcome = "CtorError"
    /\ ~is_initialized /\ instance = None
    /\ \E j \in 1..Len(_methods) : ~_methods[j].is_static

====
